---- MODULE Spec2Model ----
(***************************************************************************)
(* Model of the RTIS inference pipeline: core/signal_mapper.py             *)
(* (build_signal_context), core/stop_detector.py (detect_signal_stops) and *)
(* core/violation_engine.py (evaluate_speed_violations).                   *)
(*                                                                         *)
(* Units.  Latitudes are integers counting centimetres of arc along one    *)
(* meridian (every longitude is 0), so that the haversine distance of two  *)
(* points is exactly the absolute difference of their latitudes, in cm.    *)
(* A value "in metres with two decimals" is therefore an integer number of *)
(* cm, and round(x, 2) is rounding to the nearest integer.  Speeds are     *)
(* integers counting 0.001 kmph, so that round(speed, 2) is rounding to a  *)
(* multiple of 10.  Times are integer seconds.                             *)
(***************************************************************************)
EXTENDS Integers, Sequences, FiniteSets, TLC

VARIABLES
    pc,                     \* position of the running function
    signal_master_df,       \* section_context["signal_master_df"]
    ohe_df,                 \* section_context["ohe_df"]
    fsd_df,                 \* section_context["fsd_df"]
    direction,              \* section_context["direction"]
    master_i,               \* next row of the loop at signal_mapper.py:30
    resolved_rows,          \* signal_mapper.py:28
    rtis_df,                \* telemetry rows (argument)
    signal_df,              \* the registry: the builder's result, an argument
                            \* of the detector and of the evaluator
    stop_speed_threshold,   \* detect_signal_stops parameter
    min_stop_duration_sec,  \* detect_signal_stops parameter
    max_signal_radius_m,    \* detect_signal_stops parameter (in cm)
    df_copy,                \* df of stop_detector.py:39, the working copy
    row_i,                  \* next row of the loop at stop_detector.py:46
    current,                \* stop_detector.py:43
    stop_groups,            \* stop_detector.py:42
    group_i,                \* next group of the loop at stop_detector.py:62
    nearest_signal,         \* stop_detector.py:73, as the last pass left it
    min_distance,           \* stop_detector.py:74, as the last pass left it
    stop_events,            \* stop_detector.py:57, then the returned frame
                            \* and the stop_events_df of the evaluator
    train_type,             \* evaluate_speed_violations parameter
    train_key,              \* violation_engine.py:52
    stop_i,                 \* next row of the loop at violation_engine.py:61
    violations,             \* violation_engine.py:59, then the returned frame
    earlier                 \* what an earlier run of the two functions on the
                            \* same arguments has returned

\* the arguments and locals of build_signal_context but its result
builder_state == <<signal_master_df, ohe_df, fsd_df, direction, master_i,
                   resolved_rows>>

\* the locals of detect_signal_stops but the list it returns
stop_scratch == <<stop_speed_threshold, min_stop_duration_sec,
                  max_signal_radius_m, df_copy, row_i, current, stop_groups,
                  group_i, nearest_signal, min_distance>>

viol_locals == <<train_key, stop_i, violations>>

\* what detect_signal_stops leaves as it is
stop_args == <<rtis_df, signal_df, stop_speed_threshold, min_stop_duration_sec,
               max_signal_radius_m, train_type, viol_locals, builder_state,
               earlier>>

stop_locals == <<df_copy, row_i, current, stop_groups, group_i,
                 nearest_signal, min_distance, stop_events>>

\* what evaluate_speed_violations leaves as it is
viol_args == <<rtis_df, signal_df, stop_events, train_type, stop_scratch,
               builder_state, earlier>>

\* what build_signal_context leaves as it is
builder_args == <<signal_master_df, ohe_df, fsd_df, direction, rtis_df,
                  stop_scratch, stop_events, train_type, viol_locals, earlier>>

vars == <<pc, stop_args, stop_locals>>

----------------------------------------------------------------------------
(* Bounds of the model *)

MaxPts == 3
MaxSignals == 2
MaxStops == 2

----------------------------------------------------------------------------
(* Arithmetic helpers *)

Abs(x) == IF x < 0 THEN -x ELSE x

Kmph(x) == x * 1000

Metres(x) == x * 100

RECURSIVE SumOver(_, _)
SumOver(s, col) == IF s = <<>> THEN 0 ELSE s[1][col] + SumOver(Tail(s), col)

\* a non-negative rational number num/den; den = 0 stands for np.inf
Rat(n, d) == [num |-> n, den |-> d]

RatLess(a, b) == a.num * b.den < b.num * a.den

\* a > r for a rational a and an integer r
RatExceeds(a, r) == a.num > r * a.den

\* pandas Series.mean() of a column of a non-empty frame
Mean(df, col) == Rat(SumOver(df, col), Len(df))

\* round(x, 2) of a value held in hundredths: the nearest integer; an exact
\* half has no exact binary representation in general, so either neighbour
NearestIntegers(a) ==
    LET q == a.num \div a.den
        r == a.num % a.den
    IN  IF 2 * r < a.den THEN {q}
        ELSE IF 2 * r > a.den THEN {q + 1}
        ELSE {q, q + 1}

----------------------------------------------------------------------------
(* core/stop_detector.py *)

\* haversine on one meridian: R * |dlat|, here with lat1 a rational (the
\* centroid) and lat2 an integer, both in cm of arc
haversine_distance(lat1, lon1, lat2, lon2) ==
    Rat(Abs(lat1.num - lat1.den * lat2), lat1.den)

EXCLUDED_ASSETS == {"LEVEL_CROSSING", "NEUTRAL_SECTION"}

np_inf == Rat(1, 0)

\* Python's None, as a row no frame holds
None == [none |-> TRUE]

\* df["is_stopped"] = df["speed"] <= stop_speed_threshold
is_stopped(row, threshold) == row.speed <= threshold

\* duration_sec = (end_time - start_time).total_seconds()
duration_sec(stop_df) ==
    stop_df[Len(stop_df)].logging_time - stop_df[1].logging_time

\* the duration filter with its comparison turned around
TooShort_Inverted(stop_df, min_dur) == duration_sec(stop_df) > min_dur

\* the duration filter that drops negative durations only
TooShort_NegativeOnly(stop_df, min_dur) == duration_sec(stop_df) < 0

\* if duration_sec < min_stop_duration_sec: continue
TooShort(stop_df, min_dur) == duration_sec(stop_df) < min_dur

\* the running minimum replaced on equal distance too (last minimum wins)
Closer_OrEqual(dist, best) == ~RatLess(best, dist)

\* if dist < min_distance: (the running minimum is replaced)
Closer(dist, best) == RatLess(dist, best)

\* the scan "for _, sig in signal_df.iterrows()" from row i on, nearest and
\* best being nearest_signal and min_distance so far
RECURSIVE NearestScan(_, _, _, _, _, _)
NearestScan(sigs, i, mean_lat, mean_lon, nearest, best) ==
    IF i > Len(sigs)
    THEN [nearest_signal |-> nearest, min_distance |-> best]
    ELSE LET dist == haversine_distance(mean_lat, mean_lon,
                                        sigs[i].latitude, sigs[i].longitude)
         IN  IF Closer(dist, best)
             THEN NearestScan(sigs, i + 1, mean_lat, mean_lon, sigs[i], dist)
             ELSE NearestScan(sigs, i + 1, mean_lat, mean_lon, nearest, best)

\* the scan over the signals that are not excluded: an excluded signal can
\* then never be the nearest one
Nearest_AmongAllowed(stop_df, sigs) ==
    NearestScan(SelectSeq(sigs, LAMBDA r : r.asset_type \notin EXCLUDED_ASSETS),
                1, Mean(stop_df, "latitude"), Mean(stop_df, "longitude"),
                None, np_inf)

Nearest(stop_df, sigs) ==
    NearestScan(sigs, 1, Mean(stop_df, "latitude"), Mean(stop_df, "longitude"),
                None, np_inf)

\* the acceptance test without the radius
TooFar_RadiusIgnored(near, radius) == near.nearest_signal = None

\* if nearest_signal is None or min_distance > max_signal_radius_m: continue
TooFar(near, radius) ==
    near.nearest_signal = None \/ RatExceeds(near.min_distance, radius)

\* the exclusion with NEUTRAL_SECTION forgotten
Excluded_LevelCrossingOnly(near) ==
    near.nearest_signal.asset_type = "LEVEL_CROSSING"

\* if nearest_signal["asset_type"] in EXCLUDED_ASSETS: continue
Excluded(near) == near.nearest_signal.asset_type \in EXCLUDED_ASSETS

StopEvent(stop_df, near, rounded) ==
    [ sequence_no         |-> near.nearest_signal.sequence_no,
      signal_name         |-> near.nearest_signal.signal_name,
      asset_type          |-> near.nearest_signal.asset_type,
      emoji               |-> near.nearest_signal.emoji,
      stop_start_time     |-> stop_df[1].logging_time,
      stop_end_time       |-> stop_df[Len(stop_df)].logging_time,
      stop_duration_sec   |-> duration_sec(stop_df),
      distance_to_asset_m |-> rounded ]

\* the frame with the column "is_stopped" of line 40
WithStoppedColumn(frame, threshold) ==
    [ i \in 1..Len(frame) |->
        [is_stopped |-> is_stopped(frame[i], threshold)] @@ frame[i] ]

\* the entry without the copy of line 39: the column is added to the frame
\* of the caller
CopyFrame_InPlace ==
    /\ pc = "detect_signal_stops"
    /\ rtis_df' = WithStoppedColumn(rtis_df, stop_speed_threshold)
    /\ df_copy' = rtis_df'
    /\ stop_groups' = << >>
    /\ current' = << >>
    /\ row_i' = 1
    /\ pc' = "segment"
    /\ UNCHANGED <<signal_df, stop_speed_threshold, min_stop_duration_sec,
                   max_signal_radius_m, train_type, viol_locals, builder_state,
                   earlier, group_i, nearest_signal, min_distance, stop_events>>

\* lines 39-43: df = rtis_df.copy(), the column "is_stopped", and the two
\* empty lists
CopyFrame ==
    /\ pc = "detect_signal_stops"
    /\ df_copy' = WithStoppedColumn(rtis_df, stop_speed_threshold)
    /\ stop_groups' = << >>
    /\ current' = << >>
    /\ row_i' = 1
    /\ pc' = "segment"
    /\ UNCHANGED <<stop_args, group_i, nearest_signal, min_distance,
                   stop_events>>

\* for _, row in df.iterrows(): if row["is_stopped"]: current.append(row)
SegmentStopped ==
    /\ pc = "segment"
    /\ row_i <= Len(df_copy)
    /\ df_copy[row_i].is_stopped
    /\ current' = Append(current, df_copy[row_i])
    /\ row_i' = row_i + 1
    /\ UNCHANGED <<pc, stop_args, df_copy, stop_groups, group_i,
                   nearest_signal, min_distance, stop_events>>

\* else: if current: stop_groups.append(pd.DataFrame(current)); current = []
SegmentMoving ==
    /\ pc = "segment"
    /\ row_i <= Len(df_copy)
    /\ ~df_copy[row_i].is_stopped
    /\ IF current # <<>>
       THEN /\ stop_groups' = Append(stop_groups, current)
            /\ current' = <<>>
       ELSE UNCHANGED <<stop_groups, current>>
    /\ row_i' = row_i + 1
    /\ UNCHANGED <<pc, stop_args, df_copy, group_i, nearest_signal,
                   min_distance, stop_events>>

\* the loop's end without lines 54-55: a run still open is lost
SegmentFlush_Dropped ==
    /\ pc = "segment"
    /\ row_i > Len(df_copy)
    /\ stop_events' = << >>
    /\ group_i' = 1
    /\ pc' = "match"
    /\ UNCHANGED <<stop_args, df_copy, row_i, current, stop_groups,
                   nearest_signal, min_distance>>

\* after the loop: if current: stop_groups.append(pd.DataFrame(current));
\* then stop_events = [] (line 57)
SegmentFlush ==
    /\ pc = "segment"
    /\ row_i > Len(df_copy)
    /\ stop_groups' = IF current # <<>> THEN Append(stop_groups, current)
                      ELSE stop_groups
    /\ stop_events' = << >>
    /\ group_i' = 1
    /\ pc' = "match"
    /\ UNCHANGED <<stop_args, df_copy, row_i, current, nearest_signal,
                   min_distance>>

\* the locals the scan of lines 73-84 leaves behind
Matched(near) ==
    /\ nearest_signal' = near.nearest_signal
    /\ min_distance' = near.min_distance

NextGroup ==
    /\ group_i' = group_i + 1
    /\ UNCHANGED <<pc, stop_args, df_copy, row_i, current, stop_groups>>

\* one pass of "for stop_df in stop_groups" that ends at line 68
SkipShort ==
    /\ pc = "match"
    /\ group_i <= Len(stop_groups)
    /\ TooShort(stop_groups[group_i], min_stop_duration_sec)
    /\ NextGroup
    /\ UNCHANGED <<nearest_signal, min_distance, stop_events>>

\* one pass that ends at line 88
SkipFar ==
    /\ pc = "match"
    /\ group_i <= Len(stop_groups)
    /\ ~TooShort(stop_groups[group_i], min_stop_duration_sec)
    /\ LET near == Nearest(stop_groups[group_i], signal_df)
       IN  /\ TooFar(near, max_signal_radius_m)
           /\ Matched(near)
    /\ NextGroup
    /\ UNCHANGED stop_events

\* one pass that ends at line 92
SkipExcluded ==
    /\ pc = "match"
    /\ group_i <= Len(stop_groups)
    /\ ~TooShort(stop_groups[group_i], min_stop_duration_sec)
    /\ LET near == Nearest(stop_groups[group_i], signal_df)
       IN  /\ ~TooFar(near, max_signal_radius_m)
           /\ Excluded(near)
           /\ Matched(near)
    /\ NextGroup
    /\ UNCHANGED stop_events

\* the accepted pass with the event put at the head of the list
EmitStop_Prepended ==
    /\ pc = "match"
    /\ group_i <= Len(stop_groups)
    /\ ~TooShort(stop_groups[group_i], min_stop_duration_sec)
    /\ LET near == Nearest(stop_groups[group_i], signal_df)
       IN  /\ ~TooFar(near, max_signal_radius_m)
           /\ ~Excluded(near)
           /\ Matched(near)
           /\ \E rounded \in NearestIntegers(near.min_distance) :
                 stop_events' =
                     <<StopEvent(stop_groups[group_i], near, rounded)>>
                         \o stop_events
    /\ NextGroup

\* one pass that reaches stop_events.append at line 94
EmitStop ==
    /\ pc = "match"
    /\ group_i <= Len(stop_groups)
    /\ ~TooShort(stop_groups[group_i], min_stop_duration_sec)
    /\ LET near == Nearest(stop_groups[group_i], signal_df)
       IN  /\ ~TooFar(near, max_signal_radius_m)
           /\ ~Excluded(near)
           /\ Matched(near)
           /\ \E rounded \in NearestIntegers(near.min_distance) :
                 stop_events' = Append(stop_events,
                     StopEvent(stop_groups[group_i], near, rounded))
    /\ NextGroup

\* return pd.DataFrame(stop_events)
ReturnStops ==
    /\ pc = "match"
    /\ group_i > Len(stop_groups)
    /\ pc' = "stops_returned"
    /\ UNCHANGED <<stop_args, stop_locals>>

----------------------------------------------------------------------------
(* Arguments of detect_signal_stops *)

GapValues == {5, 10}

StopSpecSpeeds == {0, Kmph(5)}

PointLatitudes == {-1, 0}

\* what one registry row may be: its place and its classification
SignalChoices ==
    { [lat |-> Metres(50),  asset |-> "HOME"],
      [lat |-> Metres(50),  asset |-> "LEVEL_CROSSING"],
      [lat |-> Metres(150), asset |-> "NEUTRAL_SECTION"] }

AssetTypes == {"HOME", "STARTER", "DISTANT", "LEVEL_CROSSING",
               "NEUTRAL_SECTION", "SIGNAL"}

SeqNumbers == {1, 2, 3}

SignalNames == <<"SIG_A", "SIG_B", "SIG_C", "SIG_D", "SIG_E">>

Glyph(asset_type) == "glyph_" \o asset_type

ParameterSettings ==
    { [threshold |-> 0,       min_dur |-> 10, radius |-> Metres(150)],
      [threshold |-> Kmph(5), min_dur |-> 10, radius |-> Metres(50)],
      [threshold |-> 0,       min_dur |-> 0,  radius |-> Metres(150)] }

\* telemetry sorted by time, one row per timestamp, the first at time 0
RECURSIVE TimeOf(_, _)
TimeOf(f, i) == IF i = 1 THEN 0 ELSE TimeOf(f, i - 1) + f[i].gap

StopTelemetry(n) ==
    { [i \in 1..n |-> [logging_time |-> TimeOf(f, i), speed |-> f[i].speed,
                       latitude |-> f[i].lat, longitude |-> 0]] :
        f \in [1..n -> [gap : GapValues, speed : StopSpecSpeeds,
                        lat : PointLatitudes]] }

\* a registry as apply_direction returns it: ascending sequence_no
Registry(n) ==
    { [i \in 1..n |-> [sequence_no |-> i, signal_name |-> SignalNames[i],
                       asset_type |-> f[i].asset, emoji |-> Glyph(f[i].asset),
                       latitude |-> f[i].lat, longitude |-> 0]] :
        f \in [1..n -> SignalChoices] }

\* build_signal_context is not running
BuilderIdle ==
    /\ signal_master_df = << >>
    /\ ohe_df = << >>
    /\ fsd_df = [given |-> FALSE, rows |-> << >>]
    /\ direction = "DOWN"
    /\ master_i = 1
    /\ resolved_rows = << >>

\* evaluate_speed_violations is not running
EvaluatorIdle ==
    /\ train_type = "FREIGHT"
    /\ train_key = None
    /\ stop_i = 1
    /\ violations = None

\* no earlier run
NoEarlierRun == [given |-> FALSE, stop_events |-> << >>, failed |-> FALSE,
                 violations |-> << >>]

InitStop ==
    /\ pc = "detect_signal_stops"
    /\ earlier = NoEarlierRun
    /\ df_copy = << >>
    /\ BuilderIdle
    /\ EvaluatorIdle
    /\ \E n \in 0..MaxPts : rtis_df \in StopTelemetry(n)
    /\ \E n \in 0..MaxSignals : signal_df \in Registry(n)
    /\ \E p \in ParameterSettings :
          /\ stop_speed_threshold = p.threshold
          /\ min_stop_duration_sec = p.min_dur
          /\ max_signal_radius_m = p.radius
    /\ row_i = 1
    /\ current = <<>>
    /\ stop_groups = <<>>
    /\ group_i = 1
    /\ nearest_signal = None
    /\ min_distance = np_inf
    /\ stop_events = <<>>

NextStop ==
    \/ CopyFrame
    \/ SegmentStopped
    \/ SegmentMoving
    \/ SegmentFlush
    \/ SkipShort
    \/ SkipFar
    \/ SkipExcluded
    \/ EmitStop
    \/ ReturnStops

SpecStop == InitStop /\ [][NextStop]_vars

----------------------------------------------------------------------------
(* config/speed_rules.py *)

\* the table with the two limits of FREIGHT taken for each other
TRAIN_SPEED_RULES_Swapped ==
    [ k \in {"VANDE BHARAT", "COACHING", "FREIGHT"} |->
        CASE k = "VANDE BHARAT" ->
                 [SINGLE_YELLOW |-> Kmph(90), DOUBLE_YELLOW |-> Kmph(110)]
          [] k = "COACHING" ->
                 [SINGLE_YELLOW |-> Kmph(60), DOUBLE_YELLOW |-> Kmph(100)]
          [] k = "FREIGHT" ->
                 [SINGLE_YELLOW |-> Kmph(55), DOUBLE_YELLOW |-> Kmph(40)] ]

TRAIN_SPEED_RULES ==
    [ k \in {"VANDE BHARAT", "COACHING", "FREIGHT"} |->
        CASE k = "VANDE BHARAT" ->
                 [SINGLE_YELLOW |-> Kmph(90), DOUBLE_YELLOW |-> Kmph(110)]
          [] k = "COACHING" ->
                 [SINGLE_YELLOW |-> Kmph(60), DOUBLE_YELLOW |-> Kmph(100)]
          [] k = "FREIGHT" ->
                 [SINGLE_YELLOW |-> Kmph(40), DOUBLE_YELLOW |-> Kmph(55)] ]

----------------------------------------------------------------------------
(* core/violation_engine.py *)

LOOKBACK_SECONDS == 180

\* the normalisation of case left out
upper_Identity(str) == str

\* str.upper() on the strings the model passes
upper(str) ==
    CASE str = "freight" -> "FREIGHT"
      [] str = "Express" -> "EXPRESS"
      [] str = "up" -> "UP"
      [] str = "Down" -> "DOWN"
      [] str = "left" -> "LEFT"
      [] OTHER -> str

\* the window with its older end left open
get_speed_window_OpenStart(df, ref_time, lookback_seconds) ==
    SelectSeq(df, LAMBDA r : /\ r.timestamp > ref_time - lookback_seconds
                             /\ r.timestamp <= ref_time)

\* rtis_df[(timestamp >= ref_time - lookback) & (timestamp <= ref_time)]
get_speed_window(df, ref_time, lookback_seconds) ==
    SelectSeq(df, LAMBDA r : /\ r.timestamp >= ref_time - lookback_seconds
                             /\ r.timestamp <= ref_time)

\* window["speed"].max() of a non-empty window
RECURSIVE MaxSpeed(_)
MaxSpeed(window) ==
    IF Len(window) = 1 THEN window[1].speed
    ELSE LET rest == MaxSpeed(Tail(window))
         IN  IF window[1].speed > rest THEN window[1].speed ELSE rest

\* round(max_speed, 2) of a speed held in thousandths
RoundedSpeeds(max_speed) ==
    { 10 * q : q \in NearestIntegers(Rat(max_speed, 10)) }

\* seq in signal_by_seq.index
InIndex(sigs, seq) == \E i \in 1..Len(sigs) : sigs[i].sequence_no = seq

\* signal_by_seq.loc[seq]
Loc(sigs, seq) ==
    sigs[CHOOSE i \in 1..Len(sigs) : sigs[i].sequence_no = seq]

\* the comparison that takes the limit itself for an excess
Exceeds_OrEqual(max_speed, allowed) == max_speed >= allowed

\* if max_speed > allowed:
Exceeds(max_speed, allowed) == max_speed > allowed

\* train_key not in TRAIN_SPEED_RULES
InvalidTrainType(key) == key \notin DOMAIN TRAIN_SPEED_RULES

\* the SINGLE YELLOW (offset 1) or DOUBLE YELLOW (offset 2) block of one
\* pass: the violations it appends, rounded being round(max_speed, 2)
YellowCheck(df, sigs, key, stop, offset, aspect, rounded) ==
    LET seq == stop.sequence_no - offset
        window == get_speed_window(df, stop.stop_start_time, LOOKBACK_SECONDS)
        allowed == TRAIN_SPEED_RULES[key][aspect]
    IN  IF /\ InIndex(sigs, seq)
           /\ window # <<>>
           /\ Exceeds(MaxSpeed(window), allowed)
        THEN << [ violation_type |-> aspect \o "_SPEED",
                  signal_name    |-> Loc(sigs, seq).signal_name,
                  emoji          |-> Loc(sigs, seq).emoji,
                  allowed_speed  |-> allowed,
                  observed_speed |-> rounded,
                  reference_time |-> stop.stop_start_time ] >>
        ELSE << >>

\* the sanity test that lets a duration of 0 pass
NoStop_Negative(stop) == stop.stop_duration_sec < 0

\* if stop["stop_duration_sec"] <= 0:
NoStop(stop) == stop.stop_duration_sec <= 0

\* the RED SIGNAL SANITY block of one pass
RedCheck(stop) ==
    IF NoStop(stop)
    THEN << [ violation_type |-> "RED_SIGNAL_NO_STOP",
              signal_name    |-> stop.signal_name,
              emoji          |-> stop.emoji,
              allowed_speed  |-> 0,
              observed_speed |-> None,
              reference_time |-> stop.stop_start_time ] >>
    ELSE << >>

\* round(max_speed, 2) as both yellow blocks of a pass compute it
PassRoundings(df, stop) ==
    LET window == get_speed_window(df, stop.stop_start_time, LOOKBACK_SECONDS)
    IN  IF window = <<>> THEN {None} ELSE RoundedSpeeds(MaxSpeed(window))

\* lines 52-54 with an unknown category: raise ViolationEngineError
RejectTrainType ==
    /\ pc = "validate"
    /\ InvalidTrainType(upper(train_type))
    /\ train_key' = upper(train_type)
    /\ pc' = "ViolationEngineError"
    /\ UNCHANGED <<viol_args, stop_i, violations>>

\* the list of violations kept from one call to the next, as a list at
\* module level would be
AcceptTrainType_KeepsList ==
    /\ pc = "validate"
    /\ ~InvalidTrainType(upper(train_type))
    /\ train_key' = upper(train_type)
    /\ violations' = IF earlier.given /\ ~earlier.failed THEN violations
                     ELSE <<>>
    /\ stop_i' = 1
    /\ pc' = "evaluate"
    /\ UNCHANGED viol_args

\* lines 52-59 with a known category
AcceptTrainType ==
    /\ pc = "validate"
    /\ ~InvalidTrainType(upper(train_type))
    /\ train_key' = upper(train_type)
    /\ violations' = <<>>
    /\ stop_i' = 1
    /\ pc' = "evaluate"
    /\ UNCHANGED viol_args

\* one pass with the sanity block ahead of the yellow blocks
EvaluateStop_RedFirst ==
    /\ pc = "evaluate"
    /\ stop_i <= Len(stop_events)
    /\ LET stop == stop_events[stop_i]
       IN  \E rounded \in PassRoundings(rtis_df, stop) :
              violations' = violations
                  \o RedCheck(stop)
                  \o YellowCheck(rtis_df, signal_df, train_key, stop, 1,
                                 "SINGLE_YELLOW", rounded)
                  \o YellowCheck(rtis_df, signal_df, train_key, stop, 2,
                                 "DOUBLE_YELLOW", rounded)
    /\ stop_i' = stop_i + 1
    /\ UNCHANGED <<pc, viol_args, train_key>>

\* one pass of "for _, stop in stop_events_df.iterrows()", lines 61-114
EvaluateStop ==
    /\ pc = "evaluate"
    /\ stop_i <= Len(stop_events)
    /\ LET stop == stop_events[stop_i]
       IN  \E rounded \in PassRoundings(rtis_df, stop) :
              violations' = violations
                  \o YellowCheck(rtis_df, signal_df, train_key, stop, 1,
                                 "SINGLE_YELLOW", rounded)
                  \o YellowCheck(rtis_df, signal_df, train_key, stop, 2,
                                 "DOUBLE_YELLOW", rounded)
                  \o RedCheck(stop)
    /\ stop_i' = stop_i + 1
    /\ UNCHANGED <<pc, viol_args, train_key>>

\* return pd.DataFrame(violations)
ReturnViolations ==
    /\ pc = "evaluate"
    /\ stop_i > Len(stop_events)
    /\ pc' = "violations_returned"
    /\ UNCHANGED <<viol_args, viol_locals>>

----------------------------------------------------------------------------
(* Arguments of evaluate_speed_violations *)

TrainTypes == {"FREIGHT", "freight", "COACHING", "VANDE BHARAT", "Express"}

ViolSpeeds == {Kmph(40), Kmph(40) + 4, Kmph(70)}

\* the telemetry clock: rows at 0, 1, 181, 182, 362, ... seconds
ViolTimeAt(i) == 181 * ((i - 1) \div 2) + ((i - 1) % 2)

ViolTelemetry(n) ==
    { [i \in 1..n |-> [timestamp |-> ViolTimeAt(i), speed |-> f[i]]] :
        f \in [1..n -> ViolSpeeds] }

\* the start time a stop can have, by its place in the list
StopTimeChoices == {180, 181, 362}

StopDurations == {0, 10}

AssetOfSeq(seq) == IF seq % 2 = 1 THEN "STARTER" ELSE "HOME"

SignalRow(seq) ==
    [ sequence_no |-> seq, signal_name |-> SignalNames[seq],
      asset_type |-> AssetOfSeq(seq), emoji |-> Glyph(AssetOfSeq(seq)),
      latitude |-> Metres(50) * seq, longitude |-> 0 ]

\* the elements of a set of numbers in ascending order
RECURSIVE Ascending(_)
Ascending(S) ==
    IF S = {} THEN << >>
    ELSE LET least == CHOOSE x \in S : \A y \in S : x <= y
         IN  <<least>> \o Ascending(S \ {least})

\* registries with unique sequence numbers, with or without gaps
GappedRegistries ==
    { [i \in 1..Cardinality(S) |-> SignalRow(Ascending(S)[i])] :
        S \in SUBSET SeqNumbers }

\* a StopEvent list as detect_signal_stops returns it for registry sigs:
\* each stop names a signal of sigs and the start times ascend
StopListsAt(sigs, T) ==
    { [i \in 1..Cardinality(T) |->
         [ sequence_no         |-> sigs[f[i].sig].sequence_no,
           signal_name         |-> sigs[f[i].sig].signal_name,
           asset_type          |-> sigs[f[i].sig].asset_type,
           emoji               |-> sigs[f[i].sig].emoji,
           stop_start_time     |-> Ascending(T)[i],
           stop_end_time       |-> Ascending(T)[i] + f[i].dur,
           stop_duration_sec   |-> f[i].dur,
           distance_to_asset_m |-> 0 ]] :
        f \in [1..Cardinality(T) ->
                  [sig : 1..Len(sigs), dur : StopDurations]] }

StopLists(sigs) ==
    UNION { StopListsAt(sigs, T) :
              T \in { U \in SUBSET StopTimeChoices :
                         Cardinality(U) <= MaxStops } }

\* detect_signal_stops is not running
DetectorIdle ==
    /\ stop_speed_threshold = 0
    /\ min_stop_duration_sec = 10
    /\ max_signal_radius_m = Metres(150)
    /\ df_copy = << >>
    /\ row_i = 1
    /\ current = <<>>
    /\ stop_groups = <<>>
    /\ group_i = 1
    /\ nearest_signal = None
    /\ min_distance = np_inf

InitViol ==
    /\ pc = "validate"
    /\ earlier = NoEarlierRun
    /\ BuilderIdle
    /\ DetectorIdle
    /\ \E n \in 0..MaxPts : rtis_df \in ViolTelemetry(n)
    /\ signal_df \in GappedRegistries
    /\ stop_events \in StopLists(signal_df)
    /\ train_type \in TrainTypes
    /\ train_key = None
    /\ stop_i = 1
    /\ violations = None

NextViol ==
    \/ RejectTrainType
    \/ AcceptTrainType
    \/ EvaluateStop
    \/ ReturnViolations

SpecViol == InitViol /\ [][NextViol]_vars

----------------------------------------------------------------------------
(* core/signal_mapper.py *)

\* "SIGNAL_NAME" in fsd_df.columns, a frame being the list of its rows
HasColumn(df, col) == \A i \in 1..Len(df) : col \in DOMAIN df[i]

\* df[df[col] == value]
RowsWhere(df, col, value) == SelectSeq(df, LAMBDA r : r[col] = value)

\* an optional frame: fsd_df is None, or the frame of the rows given
NoFrame == [given |-> FALSE, rows |-> << >>]

Frame(rows) == [given |-> TRUE, rows |-> rows]

\* lines 36-50: lat and lon of one master row; found is false when they are
\* still None at line 52
Coordinates(row, ohe, fsd) ==
    LET match == IF fsd.given /\ HasColumn(fsd.rows, "SIGNAL_NAME")
                 THEN RowsWhere(fsd.rows, "SIGNAL_NAME", row.SIGNAL_NAME)
                 ELSE << >>
        ohe_match == RowsWhere(ohe, "OHE_ID", row.OHE_ID)
    IN  IF match # << >>
        THEN [found |-> TRUE, latitude |-> match[1].LATITUDE,
              longitude |-> match[1].LONGITUDE]
        ELSE IF ohe_match # << >>
        THEN [found |-> TRUE, latitude |-> ohe_match[1].LATITUDE,
              longitude |-> ohe_match[1].LONGITUDE]
        ELSE [found |-> FALSE]

\* lines 57-64: the row resolved_rows receives
ResolvedRow(row, coords) ==
    [ signal_name |-> row.SIGNAL_NAME,
      station     |-> row.STATION,
      signal_type |-> row.SIGNAL_TYPE,
      sequence_no |-> row.SEQUENCE_NO,
      latitude    |-> coords.latitude,
      longitude   |-> coords.longitude ]

\* one pass of "for _, row in signal_master_df.iterrows()" to line 64
ResolveRow ==
    /\ pc = "resolve"
    /\ master_i <= Len(signal_master_df)
    /\ LET row == signal_master_df[master_i]
           coords == Coordinates(row, ohe_df, fsd_df)
       IN  /\ coords.found
           /\ resolved_rows' = Append(resolved_rows, ResolvedRow(row, coords))
    /\ master_i' = master_i + 1
    /\ UNCHANGED <<pc, builder_args, signal_df>>

\* one pass that ends at line 53: raise SignalMappingError
ResolveFails ==
    /\ pc = "resolve"
    /\ master_i <= Len(signal_master_df)
    /\ ~Coordinates(signal_master_df[master_i], ohe_df, fsd_df).found
    /\ pc' = "SignalMappingError: Coordinates not found"
    /\ UNCHANGED <<builder_args, master_i, resolved_rows, signal_df>>

\* line 67: return pd.DataFrame(resolved_rows), then the call of line 133
ResolveReturns ==
    /\ pc = "resolve"
    /\ master_i > Len(signal_master_df)
    /\ pc' = "apply_direction"
    /\ UNCHANGED <<builder_args, master_i, resolved_rows, signal_df>>

\* the validation that knows UP only
InvalidDirection_UpOnly(dir) == dir # "UP"

\* direction not in {"UP", "DOWN"}
InvalidDirection(dir) == dir \notin {"UP", "DOWN"}

\* df["sequence_no"].max()
RECURSIVE MaxSequenceNo(_)
MaxSequenceNo(df) ==
    IF Len(df) = 1 THEN df[1].sequence_no
    ELSE LET rest == MaxSequenceNo(Tail(df))
         IN  IF df[1].sequence_no > rest THEN df[1].sequence_no ELSE rest

\* the mirror image without its + 1
Mirrored_OffByOne(max_seq, sequence_no) == max_seq - sequence_no

\* max_seq - df["sequence_no"] + 1
Mirrored(max_seq, sequence_no) == max_seq - sequence_no + 1

\* lines 93-95: the frame with its sequence numbers mirrored under UP
Renumbered(df, dir) ==
    IF dir = "UP"
    THEN [ i \in 1..Len(df) |->
             [df[i] EXCEPT !.sequence_no =
                 Mirrored(MaxSequenceNo(df), df[i].sequence_no)] ]
    ELSE df

Orderings(n) ==
    { f \in [1..n -> 1..n] : \A i, j \in 1..n : i # j => f[i] # f[j] }

\* the sort left out
SortValues_Unsorted(df) == {df}

\* df.sort_values("sequence_no") and reset_index: quicksort is not stable, so
\* rows of equal sequence_no come out in any order
SortValues(df) ==
    { [i \in 1..Len(df) |-> df[f[i]]] : f \in
        { g \in Orderings(Len(df)) :
            \A i \in 1..(Len(df) - 1) :
                df[g[i]].sequence_no <= df[g[i + 1]].sequence_no } }

\* apply_direction, lines 87-89 with a bad direction: raise SignalMappingError
RejectDirection ==
    /\ pc = "apply_direction"
    /\ InvalidDirection(upper(direction))
    /\ pc' = "SignalMappingError: Direction must be 'UP' or 'DOWN'"
    /\ UNCHANGED <<builder_args, master_i, resolved_rows, signal_df>>

\* pd.DataFrame([]) has no column: df["sequence_no"] at line 94 and
\* sort_values("sequence_no") at line 98 raise KeyError
ApplyDirectionNoColumn ==
    /\ pc = "apply_direction"
    /\ ~InvalidDirection(upper(direction))
    /\ resolved_rows = << >>
    /\ pc' = "KeyError: sequence_no"
    /\ UNCHANGED <<builder_args, master_i, resolved_rows, signal_df>>

\* apply_direction, lines 87-101, and the return of build_signal_context
ApplyDirection ==
    /\ pc = "apply_direction"
    /\ ~InvalidDirection(upper(direction))
    /\ resolved_rows # << >>
    /\ signal_df' \in SortValues(Renumbered(resolved_rows, upper(direction)))
    /\ pc' = "context_returned"
    /\ UNCHANGED <<builder_args, master_i, resolved_rows>>

----------------------------------------------------------------------------
(* core/section_loader.py *)

\* lines 39-43: raise SectionLoaderError on a bad direction
LoadRejectsDirection ==
    /\ pc = "load_section_data"
    /\ InvalidDirection(upper(direction))
    /\ pc' = "SectionLoaderError: Direction must be either 'UP' or 'DOWN'"
    /\ UNCHANGED <<builder_args, master_i, resolved_rows, signal_df>>

\* lines 46-95: the section folder or a file is missing, unreadable or lacks
\* a required column
LoadRejectsFiles ==
    /\ pc = "load_section_data"
    /\ ~InvalidDirection(upper(direction))
    /\ pc' = "SectionLoaderError: section files"
    /\ UNCHANGED <<builder_args, master_i, resolved_rows, signal_df>>

\* lines 46-99 with the files in order: the function ends after line 99
\* without a return statement, so the call gives None
LoadFallsOffEnd ==
    /\ pc = "load_section_data"
    /\ ~InvalidDirection(upper(direction))
    /\ pc' = "load_section_data returned None"
    /\ UNCHANGED <<builder_args, master_i, resolved_rows, signal_df>>

----------------------------------------------------------------------------
(* Arguments of build_signal_context *)

OheIds == {"OHE_1", "OHE_2", "OHE_9"}

\* the OHE mast table: OHE_9 is not in it
OheTable ==
    << [OHE_ID |-> "OHE_1", LATITUDE |-> Metres(50),  LONGITUDE |-> 0],
       [OHE_ID |-> "OHE_2", LATITUDE |-> Metres(150), LONGITUDE |-> 0] >>

\* no FSD file, one that places SIG_A, one without the SIGNAL_NAME column
FsdChoices ==
    { NoFrame,
      Frame(<< [SIGNAL_NAME |-> "SIG_A", LATITUDE |-> 0, LONGITUDE |-> 0] >>),
      Frame(<< [NAME |-> "SIG_A", LATITUDE |-> 0, LONGITUDE |-> 0] >>) }

Directions == {"UP", "DOWN", "up", "left"}

SignalMasters(n) ==
    { [i \in 1..n |-> [ SIGNAL_NAME |-> SignalNames[i], STATION |-> "NGP",
                        SIGNAL_TYPE |-> "HOME", OHE_ID |-> f[i].ohe,
                        SEQUENCE_NO |-> f[i].seq ]] :
        f \in [1..n -> [ohe : OheIds, seq : SeqNumbers]] }

\* the call is load_section_data(section, direction) or
\* build_signal_context(section_context)
InitBuilder ==
    /\ pc \in {"load_section_data", "resolve"}
    /\ earlier = NoEarlierRun
    /\ \E n \in 0..MaxSignals : signal_master_df \in SignalMasters(n)
    /\ ohe_df = OheTable
    /\ fsd_df \in FsdChoices
    /\ direction \in Directions
    /\ master_i = 1
    /\ resolved_rows = << >>
    /\ signal_df = None
    /\ rtis_df = << >>
    /\ stop_events = << >>
    /\ DetectorIdle
    /\ EvaluatorIdle

NextBuilder ==
    \/ LoadRejectsDirection
    \/ LoadRejectsFiles
    \/ LoadFallsOffEnd
    \/ ResolveRow
    \/ ResolveFails
    \/ ResolveReturns
    \/ RejectDirection
    \/ ApplyDirectionNoColumn
    \/ ApplyDirection

SpecBuilder == InitBuilder /\ [][NextBuilder]_vars

----------------------------------------------------------------------------
(* app.py, lines 117-131: detect_signal_stops, then                        *)
(* evaluate_speed_violations on its result, the telemetry and the registry *)
(* being the same for both; and the two called once more on the same       *)
(* arguments.                                                              *)

\* line 126: evaluate_speed_violations(rtis_df, signal_df, stop_events_df,
\* train_type)
CallEvaluator ==
    /\ pc = "stops_returned"
    /\ pc' = "validate"
    /\ UNCHANGED <<stop_args, stop_locals>>

\* the two calls made once more with the arguments of the first time; what
\* the first time gave is kept in earlier, and nothing else is touched
RunAgain ==
    /\ pc \in {"violations_returned", "ViolationEngineError"}
    /\ ~earlier.given
    /\ earlier' = [ given       |-> TRUE,
                    stop_events |-> stop_events,
                    failed      |-> pc = "ViolationEngineError",
                    violations  |-> IF pc = "ViolationEngineError" THEN << >>
                                    ELSE violations ]
    /\ pc' = "detect_signal_stops"
    /\ UNCHANGED <<rtis_df, signal_df, stop_speed_threshold,
                   min_stop_duration_sec, max_signal_radius_m, train_type,
                   viol_locals, builder_state, stop_locals>>

\* latitudes that keep every centroid of up to four rows a whole number of
\* cm, so that round(min_distance, 2) has one value; -12 cm is 50.12 m from
\* the first signal and 150.12 m from the third
PipelineLatitudes == {-12, Metres(150)}

PipelineSpeeds == {0, Kmph(70)}

PipelineTrainTypes == {"FREIGHT", "COACHING", "Express"}

\* telemetry sorted by time, one row per timestamp; a row carries its time
\* under the name detect_signal_stops reads (logging_time, line 63) and under
\* the name _get_speed_window reads (timestamp, line 21)
PipelineTelemetry(n) ==
    { [i \in 1..n |-> [logging_time |-> TimeOf(f, i),
                       timestamp |-> TimeOf(f, i), speed |-> f[i].speed,
                       latitude |-> f[i].lat, longitude |-> 0]] :
        f \in [1..n -> [gap : GapValues, speed : PipelineSpeeds,
                        lat : PipelineLatitudes]] }

\* registries with unique sequence numbers, with or without gaps, signal 2
\* being a level crossing
PipelineRegistries ==
    { [ i \in 1..Len(g) |->
          IF g[i].sequence_no = 2
          THEN [g[i] EXCEPT !.asset_type = "LEVEL_CROSSING",
                            !.emoji = Glyph("LEVEL_CROSSING")]
          ELSE g[i] ] : g \in GappedRegistries }

\* the default threshold with the default minimum duration, and with none
PipelineSettings == { p \in ParameterSettings : p.threshold = 0 }

InitPipeline ==
    /\ pc = "detect_signal_stops"
    /\ earlier = NoEarlierRun
    /\ BuilderIdle
    /\ \E n \in 0..MaxPts : rtis_df \in PipelineTelemetry(n)
    /\ signal_df \in PipelineRegistries
    /\ \E p \in PipelineSettings :
          /\ stop_speed_threshold = p.threshold
          /\ min_stop_duration_sec = p.min_dur
          /\ max_signal_radius_m = p.radius
    /\ df_copy = << >>
    /\ row_i = 1
    /\ current = <<>>
    /\ stop_groups = <<>>
    /\ group_i = 1
    /\ nearest_signal = None
    /\ min_distance = np_inf
    /\ stop_events = <<>>
    /\ train_type \in PipelineTrainTypes
    /\ train_key = None
    /\ stop_i = 1
    /\ violations = None

NextPipeline ==
    \/ NextStop
    \/ CallEvaluator
    \/ NextViol
    \/ RunAgain

SpecPipeline == InitPipeline /\ [][NextPipeline]_vars

\* one call of any of the operations: the pipeline of the two functions, or
\* build_signal_context
SpecOperations ==
    (InitPipeline \/ InitBuilder) /\ [][NextPipeline \/ NextBuilder]_vars

----------------------------------------------------------------------------
(* Properties of detect_signal_stops, stated on its arguments and results *)

Stopped(i) == rtis_df[i].speed <= stop_speed_threshold

\* <<lo, hi>>: rows lo..hi are stopped and the rows around them are not
MaximalRuns ==
    { r \in (1..Len(rtis_df)) \X (1..Len(rtis_df)) :
        /\ r[1] <= r[2]
        /\ \A i \in r[1]..r[2] : Stopped(i)
        /\ r[1] = 1 \/ ~Stopped(r[1] - 1)
        /\ r[2] = Len(rtis_df) \/ ~Stopped(r[2] + 1) }

\* the rows of a run as the working copy holds them
RunRows(r) ==
    [ i \in 1..(r[2] - r[1] + 1) |->
        [is_stopped |-> TRUE] @@ rtis_df[r[1] + i - 1] ]

RunDuration(r) == rtis_df[r[2]].logging_time - rtis_df[r[1]].logging_time

RowDuration(rows) == rows[Len(rows)].logging_time - rows[1].logging_time

SignalRows == { signal_df[i] : i \in 1..Len(signal_df) }

\* Len(rows) times the distance from the centroid of rows to signal s
CentroidGap(rows, s) ==
    Abs(SumOver(rows, "latitude") - Len(rows) * s.latitude)

WithinRadius(rows, s) ==
    CentroidGap(rows, s) <= max_signal_radius_m * Len(rows)

IsNearest(rows, s) ==
    /\ s \in SignalRows
    /\ \A t \in SignalRows :
          /\ CentroidGap(rows, s) <= CentroidGap(rows, t)
          /\ CentroidGap(rows, s) = CentroidGap(rows, t)
                => s.sequence_no <= t.sequence_no

\* the telemetry rows an event spans
EventRows(e) ==
    SelectSeq(rtis_df, LAMBDA r : /\ e.stop_start_time <= r.logging_time
                                  /\ r.logging_time <= e.stop_end_time)

Events == { stop_events[k] : k \in 1..Len(stop_events) }

\* C1: every emitted StopEvent lies within max_signal_radius_m of the signal
\* it names (by its true centroid distance and by its recorded distance), and
\* that signal is neither a LEVEL_CROSSING nor a NEUTRAL_SECTION.
C1_StopsNearAllowedSignal ==
    \A e \in Events :
        /\ e.asset_type \notin {"LEVEL_CROSSING", "NEUTRAL_SECTION"}
        /\ e.distance_to_asset_m <= max_signal_radius_m
        /\ \E s \in SignalRows :
              /\ s.sequence_no = e.sequence_no
              /\ s.asset_type = e.asset_type
              /\ WithinRadius(EventRows(e), s)

\* a stop exactly on the radius is returned while the registry also holds an
\* excluded asset
C1_Witness ==
    /\ pc = "stops_returned"
    /\ \E e \in Events : e.distance_to_asset_m = max_signal_radius_m
    /\ \E s \in SignalRows : s.asset_type \in {"LEVEL_CROSSING", "NEUTRAL_SECTION"}

\* C2: no emitted StopEvent lasts less than min_stop_duration_sec, its
\* duration being the last timestamp of its run minus the first; a stopped run
\* of 5 s under the 10 s minimum gives no StopEvent.
C2_NoShortStops ==
    /\ \A e \in Events :
          /\ e.stop_duration_sec = e.stop_end_time - e.stop_start_time
          /\ e.stop_duration_sec >= min_stop_duration_sec
    /\ min_stop_duration_sec = 10 =>
          \A r \in MaximalRuns : RunDuration(r) = 5 =>
              \A e \in Events :
                  e.stop_start_time # rtis_df[r[1]].logging_time

\* a stop of exactly the minimum of 10 s is returned
C2_Witness ==
    /\ pc = "stops_returned"
    /\ min_stop_duration_sec = 10
    /\ \E e \in Events : e.stop_duration_sec = 10

\* the groups the scan of lines 73-84 has run on so far
ScannedGroups ==
    { j \in 1..Len(stop_groups) :
        /\ j < group_i
        /\ RowDuration(stop_groups[j]) >= min_stop_duration_sec }

LastScanned == CHOOSE j \in ScannedGroups : \A k \in ScannedGroups : k <= j

\* C4: for a run that passes the duration filter, the matched signal is at
\* the least centroid distance of the whole registry, and of the signals at
\* that distance it is the one of lowest sequence_no.
C4_NearestLowestSequence ==
    (pc \in {"match", "stops_returned"} /\ ScannedGroups # {}) =>
        IF signal_df = <<>>
        THEN nearest_signal = None
        ELSE /\ IsNearest(stop_groups[LastScanned], nearest_signal)
             /\ min_distance.den = Len(stop_groups[LastScanned])
             /\ min_distance.num =
                   CentroidGap(stop_groups[LastScanned], nearest_signal)

\* two signals were at the same least distance of a scanned run
C4_Witness ==
    /\ pc = "match"
    /\ ScannedGroups # {}
    /\ \E t \in SignalRows :
          /\ t # nearest_signal
          /\ CentroidGap(stop_groups[LastScanned], t) = min_distance.num

\* C5: once segmentation is over, stop_groups is exactly the list of maximal
\* runs of consecutive stopped rows, in order: each group is a maximal run,
\* each maximal run (one that reaches the last row too) is a group, once.
C5_GroupsAreMaximalRuns ==
    pc \in {"match", "stops_returned"} =>
        /\ Len(stop_groups) = Cardinality(MaximalRuns)
        /\ \A k \in 1..Len(stop_groups) :
              \E r \in MaximalRuns : stop_groups[k] = RunRows(r)
        /\ \A j, k \in 1..Len(stop_groups) :
              j < k => stop_groups[j][1].logging_time
                           < stop_groups[k][1].logging_time

\* two runs parted by a moving row, the second one reaching the last row
C5_Witness ==
    /\ pc = "match"
    /\ Len(stop_groups) = 2
    /\ Len(rtis_df) > 0
    /\ Stopped(Len(rtis_df))

\* the runs that must give a StopEvent
QualifyingRuns ==
    { r \in MaximalRuns :
        /\ RunDuration(r) >= min_stop_duration_sec
        /\ \E s \in SignalRows :
              /\ IsNearest(RunRows(r), s)
              /\ WithinRadius(RunRows(r), s)
              /\ s.asset_type \notin {"LEVEL_CROSSING", "NEUTRAL_SECTION"} }

\* C6: the returned list holds exactly one StopEvent for each run that is long
\* enough and whose nearest signal is within the radius and not excluded,
\* none for another run, in the order of the runs' start times.
C6_OneStopPerQualifyingRun ==
    pc = "stops_returned" =>
        /\ Len(stop_events) = Cardinality(QualifyingRuns)
        /\ \A e \in Events :
              \E r \in QualifyingRuns :
                  /\ e.stop_start_time = rtis_df[r[1]].logging_time
                  /\ e.stop_end_time = rtis_df[r[2]].logging_time
                  /\ \E s \in SignalRows :
                        /\ IsNearest(RunRows(r), s)
                        /\ e.sequence_no = s.sequence_no
                        /\ e.signal_name = s.signal_name
                        /\ e.asset_type = s.asset_type
                        /\ e.emoji = s.emoji
        /\ \A j, k \in 1..Len(stop_events) :
              j < k => stop_events[j].stop_start_time
                           < stop_events[k].stop_start_time

\* two stops are returned, and a third run was turned down
C6_Witness ==
    /\ pc = "stops_returned"
    /\ Len(stop_events) = 2

\* Scenario 1: a 15 s run at speed 0, 50 m from a HOME signal, radius 150 m
\* and minimum 10 s, gives one StopEvent naming that HOME signal
C6_Scenario1 ==
    /\ pc = "stops_returned"
    /\ Len(stop_events) = 1
    /\ stop_events[1].stop_duration_sec = 15
    /\ stop_events[1].distance_to_asset_m = Metres(50)
    /\ stop_events[1].asset_type = "HOME"
    /\ min_stop_duration_sec = 10
    /\ max_signal_radius_m = Metres(150)

\* the runs whose nearest signal is an excluded asset
RunsAtExcludedAsset ==
    { r \in MaximalRuns :
        /\ RunDuration(r) >= min_stop_duration_sec
        /\ \E s \in SignalRows :
              /\ IsNearest(RunRows(r), s)
              /\ s.asset_type \in {"LEVEL_CROSSING", "NEUTRAL_SECTION"} }

\* C17: a run whose nearest signal is a LEVEL_CROSSING or a NEUTRAL_SECTION
\* gives no StopEvent, also when a signal of another asset_type lies within
\* max_signal_radius_m: there is no fallback to the second-nearest signal.
C17_NoFallbackFromExcluded ==
    pc = "stops_returned" =>
        \A r \in RunsAtExcludedAsset :
            \A e \in Events :
                /\ e.stop_start_time # rtis_df[r[1]].logging_time
                /\ e.stop_end_time # rtis_df[r[2]].logging_time

\* a run of 10 s with a LEVEL_CROSSING nearest (50 m, first of the registry)
\* and a HOME signal within the radius too: nothing is returned for it
C17_Witness ==
    /\ pc = "stops_returned"
    /\ stop_events = << >>
    /\ \E r \in RunsAtExcludedAsset :
          /\ RunDuration(r) >= 10
          /\ \E s, t \in SignalRows :
                /\ IsNearest(RunRows(r), s)
                /\ s.asset_type = "LEVEL_CROSSING"
                /\ t.asset_type = "HOME"
                /\ WithinRadius(RunRows(r), t)

----------------------------------------------------------------------------
(* Properties of evaluate_speed_violations *)

\* the stops whose pass of the loop is over
EvaluatedStops ==
    IF pc \in {"evaluate", "violations_returned"}
    THEN { stop_events[i] : i \in 1..(stop_i - 1) }
    ELSE {}

\* the telemetry rows with timestamp in [T - 180 s, T]
WindowRows(T) ==
    { i \in 1..Len(rtis_df) :
        T - 180 <= rtis_df[i].timestamp /\ rtis_df[i].timestamp <= T }

WindowMax(T) ==
    CHOOSE m \in { rtis_df[i].speed : i \in WindowRows(T) } :
        \A i \in WindowRows(T) : rtis_df[i].speed <= m

YellowType(k) == IF k = 1 THEN "SINGLE_YELLOW_SPEED" ELSE "DOUBLE_YELLOW_SPEED"

YellowLimit(k) ==
    IF k = 1 THEN TRAIN_SPEED_RULES[train_key].SINGLE_YELLOW
    ELSE TRAIN_SPEED_RULES[train_key].DOUBLE_YELLOW

\* the k-yellow violation is due for the stop
YellowDue(stop, k) ==
    /\ \E s \in SignalRows : s.sequence_no = stop.sequence_no - k
    /\ WindowRows(stop.stop_start_time) # {}
    /\ WindowMax(stop.stop_start_time) > YellowLimit(k)

\* the places of the list that hold a k-yellow violation of the stop
YellowEmitted(stop, k) ==
    { j \in 1..Len(violations) :
        /\ violations[j].violation_type = YellowType(k)
        /\ violations[j].reference_time = stop.stop_start_time }

\* a speed is x rounded to two decimals: a whole number of hundredths at most
\* half a hundredth from x
IsRounded(obs, x) == obs % 10 = 0 /\ Abs(obs - x) <= 5

YellowRecord(v, stop, k) ==
    /\ \E s \in SignalRows :
          /\ s.sequence_no = stop.sequence_no - k
          /\ v.signal_name = s.signal_name
          /\ v.emoji = s.emoji
    /\ v.signal_name # stop.signal_name
    /\ v.allowed_speed = YellowLimit(k)
    /\ v.reference_time = stop.stop_start_time

\* C3 as stated: for every evaluated stop at sequence_no S and time T and for
\* k in {1, 2}, the k-yellow violation is emitted iff a signal S-k exists, the
\* window [T-180 s, T] is not empty and its maximum speed exceeds the limit;
\* it names the S-k signal, and carries the limit, that maximum and T.
C3_Original ==
    \A stop \in EvaluatedStops : \A k \in {1, 2} :
        IF YellowDue(stop, k)
        THEN /\ Cardinality(YellowEmitted(stop, k)) = 1
             /\ \A j \in YellowEmitted(stop, k) :
                   /\ YellowRecord(violations[j], stop, k)
                   /\ violations[j].observed_speed =
                          WindowMax(stop.stop_start_time)
        ELSE YellowEmitted(stop, k) = {}

\* C3 as amended: the same, the observed speed being that maximum rounded to
\* two decimals.
C3_YellowViolations ==
    \A stop \in EvaluatedStops : \A k \in {1, 2} :
        IF YellowDue(stop, k)
        THEN /\ Cardinality(YellowEmitted(stop, k)) = 1
             /\ \A j \in YellowEmitted(stop, k) :
                   /\ YellowRecord(violations[j], stop, k)
                   /\ IsRounded(violations[j].observed_speed,
                                WindowMax(stop.stop_start_time))
        ELSE YellowEmitted(stop, k) = {}

\* both yellow violations of one stop are returned, a row at the very start
\* of the window holding the maximum and an older row lying outside it
C3_Witness ==
    /\ pc = "violations_returned"
    /\ \E stop \in EvaluatedStops :
          /\ YellowEmitted(stop, 1) # {}
          /\ YellowEmitted(stop, 2) # {}
          /\ \E i \in WindowRows(stop.stop_start_time) :
                /\ rtis_df[i].timestamp = stop.stop_start_time - 180
                /\ rtis_df[i].speed = WindowMax(stop.stop_start_time)
                /\ \A j \in WindowRows(stop.stop_start_time) :
                      j # i => rtis_df[j].speed < rtis_df[i].speed
          /\ \E i \in 1..Len(rtis_df) :
                rtis_df[i].timestamp < stop.stop_start_time - 180

\* Scenario 3: FREIGHT, a stop whose S-1 signal is a STARTER, 70 kmph in the
\* window: exactly one violation, SINGLE_YELLOW_SPEED, allowed 40, observed 70
C3_Scenario3 ==
    /\ pc = "violations_returned"
    /\ train_key = "FREIGHT"
    /\ Len(stop_events) = 1
    /\ Len(violations) = 1
    /\ violations[1].violation_type = "SINGLE_YELLOW_SPEED"
    /\ violations[1].allowed_speed = Kmph(40)
    /\ violations[1].observed_speed = Kmph(70)
    /\ violations[1].emoji = Glyph("STARTER")

\* the train types of the model, written in capital letters
InCapitals(type) ==
    IF type = "freight" THEN "FREIGHT"
    ELSE IF type = "Express" THEN "EXPRESS"
    ELSE type

\* C10 as stated: the call fails whenever train_type is no key of the rule
\* table.
C10_Original ==
    (pc # "validate" /\ train_type \notin {"VANDE BHARAT", "COACHING", "FREIGHT"})
        => pc = "ViolationEngineError"

\* C10 as amended: the call fails exactly when the upper-cased train_type is
\* no key of the rule table, and then before any stop is evaluated and before
\* the list of violations exists.
C10_RejectsUnknownCategory ==
    /\ pc # "validate" =>
          (pc = "ViolationEngineError"
              <=> InCapitals(train_type)
                      \notin {"VANDE BHARAT", "COACHING", "FREIGHT"})
    /\ pc = "ViolationEngineError" => (violations = None /\ stop_i = 1)

\* the call has failed with stops waiting to be evaluated
C10_Witness ==
    /\ pc = "ViolationEngineError"
    /\ train_type = "Express"
    /\ stop_events # << >>

\* the list of violations, once it exists
ViolationsSoFar ==
    IF pc \in {"evaluate", "violations_returned"} THEN violations ELSE << >>

\* the place in the StopEvent list of the stop a violation belongs to (the
\* start times of the stops of a list are distinct)
StopIndexOf(v) ==
    CHOOSE i \in 1..Len(stop_events) :
        stop_events[i].stop_start_time = v.reference_time

\* the place of a violation type within one stop event
TypeRank(v) ==
    CASE v.violation_type = "SINGLE_YELLOW_SPEED" -> 1
      [] v.violation_type = "DOUBLE_YELLOW_SPEED" -> 2
      [] v.violation_type = "RED_SIGNAL_NO_STOP" -> 3

\* C12: the list of violations follows the order of the StopEvent list
\* (chronological); within one stop event a SINGLE_YELLOW_SPEED violation
\* precedes a DOUBLE_YELLOW_SPEED one, which precedes a RED_SIGNAL_NO_STOP
\* one; the violations of different stop events are never interleaved.
C12_ViolationOrder ==
    /\ \A j \in 1..Len(ViolationsSoFar) :
          /\ violations[j].violation_type \in
                 { "SINGLE_YELLOW_SPEED", "DOUBLE_YELLOW_SPEED",
                   "RED_SIGNAL_NO_STOP" }
          /\ \E i \in 1..Len(stop_events) :
                 stop_events[i].stop_start_time = violations[j].reference_time
    /\ \A j, k \in 1..Len(ViolationsSoFar) :
          j < k =>
              /\ StopIndexOf(violations[j]) <= StopIndexOf(violations[k])
              /\ stop_events[StopIndexOf(violations[j])].stop_start_time
                     <= stop_events[StopIndexOf(violations[k])].stop_start_time
              /\ StopIndexOf(violations[j]) = StopIndexOf(violations[k])
                     => TypeRank(violations[j]) < TypeRank(violations[k])

\* a stop with its three violations, in their order, ahead of a violation of
\* the next stop
C12_Witness ==
    /\ pc = "violations_returned"
    /\ Len(violations) >= 4
    /\ violations[1].violation_type = "SINGLE_YELLOW_SPEED"
    /\ violations[2].violation_type = "DOUBLE_YELLOW_SPEED"
    /\ violations[3].violation_type = "RED_SIGNAL_NO_STOP"
    /\ violations[3].reference_time = violations[1].reference_time
    /\ violations[4].reference_time > violations[3].reference_time

\* the places of the list that hold a violation of the stop
ViolationsOf(stop) ==
    { j \in 1..Len(ViolationsSoFar) :
        violations[j].reference_time = stop.stop_start_time }

\* C13: for any train category and any evaluated stop of positive duration,
\* if the maximum speed of the window [T-180 s, T] does not exceed the
\* category's SINGLE_YELLOW limit, no violation is emitted for that stop,
\* whichever of the signals S-1 and S-2 exist.
C13_NoViolationUnderLimit ==
    \A stop \in EvaluatedStops :
        ( /\ stop.stop_duration_sec > 0
          /\ WindowRows(stop.stop_start_time) # {}
          /\ WindowMax(stop.stop_start_time)
                 <= TRAIN_SPEED_RULES[train_key].SINGLE_YELLOW )
            => ViolationsOf(stop) = {}

\* FREIGHT, a stop of 10 s whose signals S-1 and S-2 both exist, the window
\* maximum exactly the limit of 40 kmph: the call returns nothing for it
C13_Witness ==
    /\ pc = "violations_returned"
    /\ train_key = "FREIGHT"
    /\ \E stop \in EvaluatedStops :
          /\ stop.stop_duration_sec = 10
          /\ stop.sequence_no = 3
          /\ Len(signal_df) = 3
          /\ WindowRows(stop.stop_start_time) # {}
          /\ WindowMax(stop.stop_start_time) = Kmph(40)
          /\ ViolationsOf(stop) = {}

\* the places of the list that hold the RED_SIGNAL_NO_STOP violation of the
\* stop
RedEmitted(stop) ==
    { j \in ViolationsOf(stop) :
        violations[j].violation_type = "RED_SIGNAL_NO_STOP" }

\* C18: a RED_SIGNAL_NO_STOP violation is emitted for an evaluated stop iff
\* the stop's duration is <= 0; it names the stop's own signal, has no
\* observed speed and the stop's start time as reference time, and it is
\* emitted whether or not yellow violations were emitted for the stop.
C18_RedSanity ==
    \A stop \in EvaluatedStops :
        IF stop.stop_duration_sec <= 0
        THEN /\ Cardinality(RedEmitted(stop)) = 1
             /\ \A j \in RedEmitted(stop) :
                   /\ violations[j].signal_name = stop.signal_name
                   /\ violations[j].emoji = stop.emoji
                   /\ violations[j].observed_speed = None
                   /\ violations[j].allowed_speed = 0
                   /\ violations[j].reference_time = stop.stop_start_time
        ELSE RedEmitted(stop) = {}

\* two stops of no duration are returned with their RED_SIGNAL_NO_STOP
\* violation, one along with a yellow violation and one alone
C18_Witness ==
    /\ pc = "violations_returned"
    /\ \E a, b \in EvaluatedStops :
          /\ RedEmitted(a) # {}
          /\ YellowEmitted(a, 1) # {}
          /\ RedEmitted(b) # {}
          /\ ViolationsOf(b) = RedEmitted(b)

\* C20: in the rule table every category's SINGLE_YELLOW limit is below its
\* DOUBLE_YELLOW limit; so for an evaluated stop whose signals S-1 and S-2
\* both exist, a DOUBLE_YELLOW_SPEED violation comes with a
\* SINGLE_YELLOW_SPEED violation of the same stop, and the two carry the same
\* observed speed and reference time.
C20_DoubleImpliesSingle ==
    /\ \A k \in DOMAIN TRAIN_SPEED_RULES :
          TRAIN_SPEED_RULES[k].SINGLE_YELLOW < TRAIN_SPEED_RULES[k].DOUBLE_YELLOW
    /\ \A stop \in EvaluatedStops :
          ( /\ \E s \in SignalRows : s.sequence_no = stop.sequence_no - 1
            /\ \E s \in SignalRows : s.sequence_no = stop.sequence_no - 2 )
          => \A j \in YellowEmitted(stop, 2) :
                 \E i \in YellowEmitted(stop, 1) :
                     /\ i < j
                     /\ violations[i].observed_speed
                            = violations[j].observed_speed
                     /\ violations[i].reference_time
                            = violations[j].reference_time

\* FREIGHT at 70 kmph before a stop at signal 3: both yellow violations are
\* returned; and a stop approached at 40.004 kmph has the single one only
C20_Witness ==
    /\ pc = "violations_returned"
    /\ train_key = "FREIGHT"
    /\ \E a, b \in EvaluatedStops :
          /\ a.sequence_no = 3 /\ b.sequence_no = 3
          /\ Len(signal_df) = 3
          /\ YellowEmitted(a, 2) # {}
          /\ YellowEmitted(b, 1) # {}
          /\ YellowEmitted(b, 2) = {}

----------------------------------------------------------------------------
(* Properties of build_signal_context *)

\* the number of raw signals
N == Len(signal_master_df)

MasterRows == { signal_master_df[i] : i \in 1..N }

\* the sequence number the raw list gives a signal: its number under DOWN
RawSequenceNo(name) ==
    (CHOOSE r \in MasterRows : r.SIGNAL_NAME = name).SEQUENCE_NO

\* the largest sequence number of the raw list
LargestRaw ==
    CHOOSE m \in { r.SEQUENCE_NO : r \in MasterRows } :
        \A r \in MasterRows : r.SEQUENCE_NO <= m

GoingUp == direction \in {"UP", "up"}

Returned == pc = "context_returned"

\* C7 as stated: DOWN leaves the numbering as it is, and UP gives signal i
\* the number N - seq_down(i) + 1, N being the number of signals.
C7_Original ==
    Returned =>
        /\ Len(signal_df) = N
        /\ \A i \in 1..Len(signal_df) :
              signal_df[i].sequence_no =
                  IF GoingUp
                  THEN N - RawSequenceNo(signal_df[i].signal_name) + 1
                  ELSE RawSequenceNo(signal_df[i].signal_name)

\* C7 as amended: DOWN leaves the numbering as it is, and UP gives signal i
\* the number M - seq_down(i) + 1, M being the largest sequence number of the
\* raw list (which is N when the raw numbers are 1..N).
C7_DirectionSymmetry ==
    Returned =>
        /\ Len(signal_df) = N
        /\ \A r \in MasterRows :
              \E i \in 1..Len(signal_df) :
                  signal_df[i].signal_name = r.SIGNAL_NAME
        /\ \A i \in 1..Len(signal_df) :
              signal_df[i].sequence_no =
                  IF GoingUp
                  THEN LargestRaw - RawSequenceNo(signal_df[i].signal_name) + 1
                  ELSE RawSequenceNo(signal_df[i].signal_name)
        /\ { r.SEQUENCE_NO : r \in MasterRows } = 1..N => LargestRaw = N

\* a registry of two signals numbered 1 and 2 is returned mirrored
C7_Witness ==
    /\ Returned
    /\ GoingUp
    /\ N = 2
    /\ signal_master_df[1].SEQUENCE_NO = 1
    /\ signal_master_df[2].SEQUENCE_NO = 2
    /\ signal_df[1].signal_name = signal_master_df[2].SIGNAL_NAME
    /\ signal_df[1].sequence_no = 1

\* C8 as stated: the registry returned is in ascending order of sequence_no,
\* its numbers are unique, strictly increasing and exactly 1..N, given in
\* file order before the direction is applied.
C8_Original ==
    Returned =>
        /\ Len(signal_df) = N
        /\ \A i \in 1..Len(signal_df) :
              /\ signal_df[i].sequence_no = i
              /\ signal_df[i].signal_name =
                     IF GoingUp THEN signal_master_df[N + 1 - i].SIGNAL_NAME
                     ELSE signal_master_df[i].SIGNAL_NAME

\* the raw list numbers its signals 1..N in some order
RawIsPermutation ==
    /\ { r.SEQUENCE_NO : r \in MasterRows } = 1..N
    /\ \A i, j \in 1..N :
          i # j => signal_master_df[i].SEQUENCE_NO
                       # signal_master_df[j].SEQUENCE_NO

RawIsDistinct ==
    \A i, j \in 1..N :
        i # j => signal_master_df[i].SEQUENCE_NO
                     # signal_master_df[j].SEQUENCE_NO

\* C8 as amended: the registry returned is in ascending (not always strict)
\* order of sequence_no; its numbers are those of the raw list's SEQUENCE_NO
\* column, so they are strictly increasing exactly when that column has no
\* number twice, and are exactly 1..N when it holds 1..N in some order.
C8_RegistryAscending ==
    Returned =>
        /\ Len(signal_df) = N
        /\ \A i \in 1..(Len(signal_df) - 1) :
              signal_df[i].sequence_no <= signal_df[i + 1].sequence_no
        /\ RawIsDistinct <=>
              \A i \in 1..(Len(signal_df) - 1) :
                  signal_df[i].sequence_no < signal_df[i + 1].sequence_no
        /\ RawIsPermutation =>
              \A i \in 1..Len(signal_df) : signal_df[i].sequence_no = i

\* a raw list numbered 2, 1 is returned in the order 1, 2
C8_Witness ==
    /\ Returned
    /\ ~GoingUp
    /\ N = 2
    /\ signal_master_df[1].SEQUENCE_NO = 2
    /\ signal_master_df[2].SEQUENCE_NO = 1
    /\ signal_df[1].signal_name = signal_master_df[2].SIGNAL_NAME

\* C9: every signal of the registry returned carries an asset_type of the
\* six classes and the glyph of that asset_type.
C9_Original ==
    Returned =>
        \A i \in 1..Len(signal_df) :
            /\ "asset_type" \in DOMAIN signal_df[i]
            /\ "emoji" \in DOMAIN signal_df[i]
            /\ signal_df[i].asset_type \in AssetTypes
            /\ signal_df[i].emoji = Glyph(signal_df[i].asset_type)

\* the runs of build_signal_context and of load_section_data that are over
BuilderFailed ==
    pc \in { "SignalMappingError: Coordinates not found",
             "SignalMappingError: Direction must be 'UP' or 'DOWN'",
             "KeyError: sequence_no" }

LoaderOver ==
    pc \in { "SectionLoaderError: Direction must be either 'UP' or 'DOWN'",
             "SectionLoaderError: section files",
             "load_section_data returned None" }

\* C11 as stated: whenever the direction flag is not UP or DOWN, the builder
\* (and the section loader before it) fails with a validation error and no
\* registry is returned.
C11_Original ==
    direction \notin {"UP", "DOWN"} =>
        /\ (Returned \/ BuilderFailed) =>
              /\ pc \in { "SignalMappingError: Coordinates not found",
                          "SignalMappingError: Direction must be 'UP' or 'DOWN'" }
              /\ signal_df = None
        /\ LoaderOver =>
              pc = "SectionLoaderError: Direction must be either 'UP' or 'DOWN'"

\* C11 as amended: whenever the direction flag written in capitals is not UP
\* or DOWN, build_signal_context fails with a SignalMappingError (that of the
\* direction, or that of a signal without coordinates, which is raised first)
\* and returns no registry, and load_section_data fails with a
\* SectionLoaderError; the direction error is raised for no other flag, and a
\* registry is returned only for a flag that is UP or DOWN in capitals.
C11_RejectsBadDirection ==
    /\ ~(GoingUp \/ direction = "DOWN") =>
          /\ (Returned \/ BuilderFailed) =>
                /\ pc \in { "SignalMappingError: Coordinates not found",
                            "SignalMappingError: Direction must be 'UP' or 'DOWN'" }
                /\ signal_df = None
          /\ LoaderOver =>
                pc = "SectionLoaderError: Direction must be either 'UP' or 'DOWN'"
    /\ pc \in { "SignalMappingError: Direction must be 'UP' or 'DOWN'",
                "SectionLoaderError: Direction must be either 'UP' or 'DOWN'" }
          => ~(GoingUp \/ direction = "DOWN")
    /\ ~Returned => signal_df = None
    /\ Returned => (GoingUp \/ direction = "DOWN")

\* the builder has turned down the direction "left" after it resolved every
\* signal of the raw list
C11_Witness ==
    /\ pc = "SignalMappingError: Direction must be 'UP' or 'DOWN'"
    /\ direction = "left"
    /\ Len(resolved_rows) = 2

----------------------------------------------------------------------------
(* Properties of the two functions called one after the other *)

\* detect_signal_stops has returned
DetectorOver ==
    pc \in { "stops_returned", "validate", "evaluate", "violations_returned",
             "ViolationEngineError" }

\* the runs that are long enough and have no signal within the radius
FarRuns ==
    { r \in MaximalRuns :
        /\ RunDuration(r) >= min_stop_duration_sec
        /\ \A s \in SignalRows : ~WithinRadius(RunRows(r), s) }

\* C14: finding no match is no error. A run with no signal within
\* max_signal_radius_m (the empty registry included) gives no StopEvent and no
\* exception; a stop whose signal S-1 or S-2 is not in the registry gives no
\* violation for that check and no exception; an empty StopEvent list makes
\* evaluate_speed_violations return an empty list. (The one failure of the
\* two functions is that of the train category.)
C14_NoMatchIsNoError ==
    /\ DetectorOver =>
          \A r \in FarRuns : \A e \in Events :
              e.stop_start_time # rtis_df[r[1]].logging_time
    /\ \A stop \in EvaluatedStops : \A k \in {1, 2} :
          (\A s \in SignalRows : s.sequence_no # stop.sequence_no - k)
              => YellowEmitted(stop, k) = {}
    /\ (pc = "violations_returned" /\ stop_events = << >>)
          => violations = << >>
    /\ pc \in { "detect_signal_stops", "segment", "match", "stops_returned",
                "validate", "evaluate", "violations_returned",
                "ViolationEngineError" }
    /\ pc = "ViolationEngineError" =>
          InCapitals(train_type) \notin {"VANDE BHARAT", "COACHING", "FREIGHT"}

\* both functions have returned: a run had no signal within the radius and
\* gave no stop, and a stop approached above the limit has no signal S-1
C14_Witness ==
    /\ pc = "violations_returned"
    /\ FarRuns # {}
    /\ \E stop \in EvaluatedStops :
          /\ \A s \in SignalRows : s.sequence_no # stop.sequence_no - 1
          /\ WindowRows(stop.stop_start_time) # {}
          /\ WindowMax(stop.stop_start_time) > YellowLimit(1)
          /\ YellowEmitted(stop, 1) = {}

\* two lists of violations are the same
SameViolations(a, b) ==
    /\ Len(a) = Len(b)
    /\ \A j \in 1..Len(a) :
          /\ a[j].violation_type = b[j].violation_type
          /\ a[j].signal_name = b[j].signal_name
          /\ a[j].emoji = b[j].emoji
          /\ a[j].allowed_speed = b[j].allowed_speed
          /\ a[j].reference_time = b[j].reference_time
          /\ a[j].violation_type # "RED_SIGNAL_NO_STOP"
                 => a[j].observed_speed = b[j].observed_speed

\* C15: detect_signal_stops run twice, and evaluate_speed_violations run
\* twice, on the same arguments return the same lists (or fail the same
\* way): nothing an earlier run has left decides what a later run gives.
C15_SameOutputsAgain ==
    earlier.given =>
        /\ DetectorOver => stop_events = earlier.stop_events
        /\ pc = "violations_returned" =>
              /\ ~earlier.failed
              /\ SameViolations(violations, earlier.violations)
        /\ pc = "ViolationEngineError" => earlier.failed

\* the second run has returned a stop and two violations
C15_Witness ==
    /\ earlier.given
    /\ pc = "violations_returned"
    /\ Len(stop_events) >= 1
    /\ Len(violations) >= 2

\* where the two functions are
PipelinePlaces ==
    { "detect_signal_stops", "segment", "match", "stops_returned",
      "validate", "evaluate", "violations_returned", "ViolationEngineError" }

\* C16: no operation changes what it is given. apply_direction leaves the
\* frame it is handed as it is, detect_signal_stops the telemetry and the
\* registry, evaluate_speed_violations these and the list of stops; no
\* parameter is written to. (The rule table is a constant: no statement of
\* the source assigns to it or to one of its entries.)
C16_InputsUnchanged ==
    [][ /\ rtis_df' = rtis_df
        /\ pc \in PipelinePlaces => signal_df' = signal_df
        /\ pc \in {"validate", "evaluate"} => stop_events' = stop_events
        /\ pc = "apply_direction" => resolved_rows' = resolved_rows
        /\ signal_master_df' = signal_master_df
        /\ ohe_df' = ohe_df
        /\ fsd_df' = fsd_df
        /\ direction' = direction
        /\ train_type' = train_type
        /\ stop_speed_threshold' = stop_speed_threshold
        /\ min_stop_duration_sec' = min_stop_duration_sec
        /\ max_signal_radius_m' = max_signal_radius_m ]_vars

\* both functions have returned, the working copy carries the column
\* "is_stopped" and the telemetry of the caller does not
C16_Witness ==
    /\ pc = "violations_returned"
    /\ Len(violations) >= 1
    /\ Len(df_copy) >= 2
    /\ \A i \in 1..Len(df_copy) : "is_stopped" \in DOMAIN df_copy[i]
    /\ \A i \in 1..Len(rtis_df) : "is_stopped" \notin DOMAIN rtis_df[i]

\* the places of the list that hold a RED_SIGNAL_NO_STOP violation
RedPlaces ==
    { j \in 1..Len(ViolationsSoFar) :
        violations[j].violation_type = "RED_SIGNAL_NO_STOP" }

\* C19: when the list of stops is what detect_signal_stops returns for
\* telemetry sorted by time, no RED_SIGNAL_NO_STOP violation is emitted while
\* min_stop_duration_sec > 0; one is emitted only with
\* min_stop_duration_sec <= 0, for a run of a single row, whose duration is 0.
C19_SanityBranchUnreachable ==
    /\ min_stop_duration_sec > 0 => RedPlaces = {}
    /\ \A j \in RedPlaces :
          /\ min_stop_duration_sec <= 0
          /\ \E r \in MaximalRuns :
                /\ r[1] = r[2]
                /\ rtis_df[r[1]].logging_time = violations[j].reference_time
          /\ \E stop \in EvaluatedStops :
                /\ stop.stop_start_time = violations[j].reference_time
                /\ stop.stop_end_time = stop.stop_start_time
                /\ stop.stop_duration_sec = 0

\* with no minimum duration, two runs of one row each were taken for stops
\* and the evaluator has returned a RED_SIGNAL_NO_STOP violation for both
C19_Witness ==
    /\ pc = "violations_returned"
    /\ min_stop_duration_sec = 0
    /\ Len(stop_events) = 2
    /\ Cardinality(RedPlaces) = 2

====
